---- MODULE Spec2Model ----
(***************************************************************************)
(* Spresense dynamic sine wave generator (src/src/main.cpp).               *)
(*                                                                         *)
(* The sketch has three entry points that touch the shared globals:        *)
(*   loop()                   - refills the player, reads the serial line  *)
(*                              and applies frequency commands, then       *)
(*                              checks err_flag and halts on a fault;      *)
(*   player_decode_callback() - calls generate_sine, which advances phase; *)
(*   error_callback()         - sets err_flag.                             *)
(*                                                                         *)
(* C float values are modelled bit-exactly as IEEE-754 binary32 values:    *)
(* a record [m |-> mantissa, e |-> exponent] stands for m * 2^e, with      *)
(* either m = 0 (zero, e = 0) or 2^23 <= m < 2^24.  Every value of the     *)
(* program is non-negative (the input buffer never holds a sign, phase is  *)
(* only decreased when it is >= PI2), so no sign is carried.  All          *)
(* arithmetic is round-to-nearest-even, as on the Cortex-M4F FPU.          *)
(***************************************************************************)
EXTENDS Integers, Sequences, FiniteSets, TLC

(***************************************************************************)
(* binary32 arithmetic                                                     *)
(***************************************************************************)
P23 == 2^23
P24 == 2^24

FZero == [m |-> 0, e |-> 0]

\* number of bits of n (0 for n = 0)
RECURSIVE BitLen(_)
BitLen(n) == IF n = 0 THEN 0 ELSE 1 + BitLen(n \div 2)

\* The binary32 nearest to (M + eps) * 2^e, where 0 <= eps < 1 and
\* sticky <=> eps > 0; ties go to the even mantissa.
FRound(M, e, sticky) ==
  IF M = 0 THEN FZero
  ELSE LET bits == BitLen(M) IN
    IF bits <= 24
    THEN [m |-> M * 2^(24 - bits), e |-> e - (24 - bits)]
    ELSE LET k    == bits - 24
             q    == M \div 2^k
             r    == M % 2^k
             half == 2^(k - 1)
             up   == \/ r > half
                     \/ r = half /\ sticky
                     \/ r = half /\ ~sticky /\ q % 2 = 1
             q1   == IF up THEN q + 1 ELSE q
         IN IF q1 = P24 THEN [m |-> P23, e |-> e + k + 1]
                        ELSE [m |-> q1, e |-> e + k]

\* a < b, a <= b on non-negative normalised values
FLess(a, b) ==
  IF a.m = 0 THEN b.m > 0
  ELSE b.m > 0 /\ (a.e < b.e \/ (a.e = b.e /\ a.m < b.m))

FLeq(a, b) == a = b \/ FLess(a, b)

\* a + b, correctly rounded (3 guard bits and a sticky bit)
FAdd(a, b) ==
  IF a.m = 0 THEN b
  ELSE IF b.m = 0 THEN a
  ELSE LET hi == IF a.e >= b.e THEN a ELSE b
           lo == IF a.e >= b.e THEN b ELSE a
           d  == hi.e - lo.e
           A  == hi.m * 8
           B  == IF d >= 27 THEN 0 ELSE (lo.m * 8) \div 2^d
           st == IF d >= 27 THEN TRUE ELSE (lo.m * 8) % 2^d # 0
       IN FRound(A + B, hi.e - 3, st)

\* a - b for a >= b, correctly rounded
FSub(a, b) ==
  IF b.m = 0 THEN a
  ELSE IF a = b THEN FZero
  ELSE LET d  == a.e - b.e
           A  == a.m * 8
           B  == IF d >= 27 THEN 0 ELSE (b.m * 8) \div 2^d
           st == IF d >= 27 THEN TRUE ELSE (b.m * 8) % 2^d # 0
       IN IF st THEN FRound(A - B - 1, a.e - 3, TRUE)
                ELSE FRound(A - B, a.e - 3, FALSE)

\* a * b, correctly rounded; the 48-bit product is kept as H * 2^24 + L
FMul(a, b) ==
  IF a.m = 0 \/ b.m = 0 THEN FZero
  ELSE LET a1  == a.m \div 4096
           a0  == a.m % 4096
           b1  == b.m \div 4096
           b0  == b.m % 4096
           mid == a1 * b0 + a0 * b1
           t   == a0 * b0 + (mid % 4096) * 4096
           L   == t % P24
           H   == a1 * b1 + (mid \div 4096) + (t \div P24)
       IN IF H >= P23
          THEN FRound(H * 2 + (L \div P23), a.e + b.e + 23, L % P23 # 0)
          ELSE FRound(H * 4 + (L \div 2^22), a.e + b.e + 22, L % 2^22 # 0)

\* the first n quotient bits of r / d (r < d), and the final remainder
RECURSIVE DivBits(_, _, _, _)
DivBits(q, r, d, n) ==
  IF n = 0 THEN [q |-> q, r |-> r]
  ELSE IF 2 * r >= d THEN DivBits(2 * q + 1, 2 * r - d, d, n - 1)
                     ELSE DivBits(2 * q, 2 * r, d, n - 1)

\* a / b (b # 0), correctly rounded
FDiv(a, b) ==
  IF a.m = 0 THEN FZero
  ELSE LET qr == DivBits(a.m \div b.m, a.m % b.m, b.m, 26)
       IN FRound(qr.q, a.e - b.e - 26, qr.r # 0)


\* the float value of a small non-negative integer literal (exact below 2^24)
FInt(n) == FRound(n, 0, FALSE)

(***************************************************************************)
(* Program constants (main.cpp lines 35-39)                                *)
(***************************************************************************)
SAMPLE_RATE == FInt(48000)                       \* 48000.0f
PI2         == [m |-> 13176795, e |-> -21]       \* 6.2831853f
FREQ_DEFAULT == FInt(440)                        \* float freq = 440.0f
FREQ_MIN    == FInt(20)                          \* newFreq > 20.0
FREQ_MAX    == FInt(20000)                       \* newFreq < 20000.0
AS_ATTENTION_CODE_WARNING == 1

(***************************************************************************)
(* Characters.  A character is a one-character string.                     *)
(***************************************************************************)
Digits      == {"0", "1", "2", "3", "4", "5", "6", "7", "8", "9"}
Terminators == {"\n", "\r"}

DigitVal(ch) ==
  CASE ch = "0" -> 0 [] ch = "1" -> 1 [] ch = "2" -> 2 [] ch = "3" -> 3
    [] ch = "4" -> 4 [] ch = "5" -> 5 [] ch = "6" -> 6 [] ch = "7" -> 7
    [] ch = "8" -> 8 [] ch = "9" -> 9

\* a slip: only '\n' ends a line
IsTerminator_OnlyNewline(ch) == ch = "\n"

\* c == '\n' || c == '\r'
IsTerminator(ch) == ch = "\n" \/ ch = "\r"

\* a slip: the minus sign let through as well
IsAccepted_Minus(ch) == ch \in Digits \/ ch = "." \/ ch = "-"

\* isDigit(c) || c == '.'
IsAccepted(ch) == ch \in Digits \/ ch = "."

(***************************************************************************)
(* String::toFloat(), i.e. float(atof(buffer)): the longest prefix of the  *)
(* form digits [ "." digits ] holding at least one digit is converted; if  *)
(* there is none the result is 0.  The buffer holds only digits and        *)
(* points, so no sign, blank or exponent has to be skipped.  atof returns  *)
(* the double nearest to the decimal value, and the conversion to float    *)
(* rounds that double a second time.  The decimal value is expanded in     *)
(* binary on the decimal digits themselves, so that a numeral has a value  *)
(* whatever its length.                                                    *)
(***************************************************************************)
\* length of the longest prefix of s made of digits
DigitRun(s) ==
  CHOOSE n \in 0 .. Len(s) :
    /\ \A k \in 1 .. n : s[k] \in Digits
    /\ n = Len(s) \/ s[n + 1] \notin Digits

\* value of a sequence of digits read as a decimal integer (at most 9 digits)
RECURSIVE DigitsVal(_)
DigitsVal(s) ==
  IF s = <<>> THEN 0
  ELSE 10 * DigitsVal(SubSeq(s, 1, Len(s) - 1)) + DigitVal(s[Len(s)])

\* the numeral atof converts: integer digits, fraction digits
Numeral(s) ==
  LET ni   == DigitRun(s)
      rest == SubSeq(s, ni + 1, Len(s))
      nf   == IF rest # <<>> /\ Head(rest) = "." THEN DigitRun(Tail(rest)) ELSE 0
  IN [int  |-> SubSeq(s, 1, ni),
      frac |-> IF nf = 0 THEN <<>> ELSE SubSeq(rest, 2, nf + 1)]

\* Long numerals are handled four decimal digits (a limb, 0 .. 9999) and
\* sixteen bits (a chunk, 0 .. 65535) at a time.
\* digit i of s after pad zeros have been put before it; 0 beyond its end
PadDigit(s, pad, i) ==
  IF i <= pad \/ i - pad > Len(s) THEN 0 ELSE DigitVal(s[i - pad])

\* the limbs of the integer digits s (zeros added in front) and of the
\* fraction digits s (zeros added behind)
Limbs(s, pad) ==
  [j \in 1 .. (Len(s) + pad + 3) \div 4 |->
     1000 * PadDigit(s, pad, 4 * j - 3) + 100 * PadDigit(s, pad, 4 * j - 2)
       + 10 * PadDigit(s, pad, 4 * j - 1) + PadDigit(s, pad, 4 * j)]

IntLimbs(s)  == Limbs(s, (4 - (Len(s) % 4)) % 4)
FracLimbs(s) == Limbs(s, 0)

\* every limb of ls is 0
AllZero(ls) == \A k \in 1 .. Len(ls) : ls[k] = 0

\* the limbs i .. j of the integer ls, with carry put before them, divided
\* by 2^16: the limbs of the quotient and the remainder (long division, the
\* left half first and its remainder carried into the right half; a carry is
\* never negative, and is settled before the limbs are visited)
RECURSIVE DivLimbs(_, _, _, _)
DivLimbs(ls, i, j, carry) ==
  IF carry < 0 \/ j < i THEN [q |-> <<>>, r |-> carry]
  ELSE IF i = j
  THEN LET v == 10000 * carry + ls[i] IN [q |-> <<v \div 65536>>, r |-> v % 65536]
  ELSE LET mid   == (i + j) \div 2
           left  == DivLimbs(ls, i, mid, carry)
           right == DivLimbs(ls, mid + 1, j, left.r)
       IN [q |-> left.q \o right.q, r |-> right.r]

\* the chunks of the integer ls put before acc, most significant first
RECURSIVE IntChunks(_, _)
IntChunks(ls, acc) ==
  IF AllZero(ls) THEN acc
  ELSE LET h == DivLimbs(ls, 1, Len(ls), 0) IN IntChunks(h.q, <<h.r>> \o acc)

\* the limbs i .. j of the fraction 0.ls times 2^16 plus carry: what moves
\* before limb i, and the limbs left (long multiplication, the right half
\* first and its carry taken into the left half)
RECURSIVE MulLimbs(_, _, _, _)
MulLimbs(ls, i, j, carry) ==
  IF carry < 0 \/ j < i THEN [carry |-> carry, q |-> <<>>]
  ELSE IF i = j
  THEN LET v == 65536 * ls[i] + carry IN [carry |-> v \div 10000, q |-> <<v % 10000>>]
  ELSE LET mid   == (i + j) \div 2
           right == MulLimbs(ls, mid + 1, j, carry)
           left  == MulLimbs(ls, i, mid, right.carry)
       IN [carry |-> left.carry, q |-> left.q \o right.q]

\* the binary expansion of the fraction 0.ls: need more chunks appended to
\* acc; while started is false the zero chunks are skipped and counted;
\* sticky tells whether the expansion goes on.  After 68 zero chunks the
\* fraction is below 2^-1088, less than half the smallest double, and atof
\* returns 0: the expansion is left empty
RECURSIVE FracChunks(_, _, _, _, _)
FracChunks(ls, started, need, zeros, acc) ==
  IF zeros >= 68 THEN [chunks |-> <<>>, zeros |-> zeros, sticky |-> FALSE]
  ELSE IF need <= 0 \/ AllZero(ls)
  THEN [chunks |-> acc, zeros |-> zeros, sticky |-> ~AllZero(ls)]
  ELSE LET d == MulLimbs(ls, 1, Len(ls), 0)
       IN IF ~started /\ d.carry = 0
          THEN FracChunks(d.q, FALSE, need, zeros + 1, acc)
          ELSE FracChunks(d.q, TRUE, need - 1, zeros, Append(acc, d.carry))

\* bit k of the expansion B (0 beyond its end), and the bits i .. j of B read
\* as a number
BitAt(B, k) == IF k <= Len(B) THEN B[k] ELSE 0

RECURSIVE BitsVal(_, _, _)
BitsVal(B, i, j) ==
  IF j < i THEN 0
  ELSE IF j = i THEN BitAt(B, i)
  ELSE LET mid == (i + j) \div 2
       IN BitsVal(B, i, mid) * 2^(j - mid) + BitsVal(B, mid + 1, j)

\* The value 0.B * 2^E of a numeral: B its bits from the first 1 on, at
\* least 55 of them unless the expansion ends before, and sticky whether
\* something other than 0 follows B
NumeralBits(num) ==
  LET ic == IntChunks(IntLimbs(num.int), <<>>)
      fc == FracChunks(FracLimbs(num.frac), ic # <<>>, 5 - Len(ic), 0, <<>>)
      ch == ic \o fc.chunks
      lz == IF ch = <<>> THEN 0 ELSE 16 - BitLen(ch[1])
  IN [B      |-> [k \in 1 .. 16 * Len(ch) - lz |->
                    (ch[(k + lz - 1) \div 16 + 1]
                       \div 2^(15 - ((k + lz - 1) % 16))) % 2],
      E      |-> IF ic # <<>> THEN 16 * Len(ic) - lz
                              ELSE -(16 * fc.zeros + lz),
      sticky |-> fc.sticky]

\* atof: the double nearest to 0.B * 2^E, ties to the even mantissa, as
\* hi * 2^29 + lo with 2^23 <= hi < 2^24 and lo < 2^29, times 2^(E - 53).
\* E is not limited to the exponents of a double: above 2^128 the float is
\* infinite and below 2^-150 it is zero, whatever the double was.
ToDouble(B, E, sticky) ==
  LET hi  == BitsVal(B, 1, 24)
      lo  == BitsVal(B, 25, 53)
      up  == /\ BitAt(B, 54) = 1
             /\ \/ sticky
                \/ \E k \in 55 .. Len(B) : B[k] = 1
                \/ BitAt(B, 53) = 1
      lo1 == IF up THEN lo + 1 ELSE lo
      hi1 == IF lo1 = 2^29 THEN hi + 1 ELSE hi
  IN IF hi1 = P24 THEN [hi |-> P23, lo |-> 0, E |-> E + 1]
                  ELSE [hi |-> hi1, lo |-> lo1 % 2^29, E |-> E]

\* a float above FLT_MAX: the conversion gives infinity, which is greater
\* than every other value
FInf == [m |-> P23, e |-> 1000]

\* (float) of the double d: p of its mantissa bits are kept, 24 for a normal
\* float and fewer below 2^-126, ties to the even mantissa; a result below
\* 2^-126 is written with a normalised mantissa like every other value
FromDouble(d) ==
  LET p == IF d.E + 149 < 24 THEN d.E + 149 ELSE 24
  IN IF p < 0 THEN FZero
     ELSE LET cut  == 2^(24 - p)
              q    == d.hi \div cut
              r    == d.hi % cut
              half == cut \div 2
              up   == IF p = 24
                      THEN /\ d.lo >= 2^28
                           /\ (d.lo > 2^28 \/ q % 2 = 1)
                      ELSE /\ r >= half
                           /\ (r > half \/ d.lo > 0 \/ q % 2 = 1)
              q1   == IF up THEN q + 1 ELSE q
              f    == FRound(q1, d.E - p, FALSE)
          IN IF f.m > 0 /\ f.e + 23 > 127 THEN FInf ELSE f

\* a slip for toFloat: String::toInt(), which stops at the decimal point
toFloat_toInt(s) == FInt(DigitsVal(Numeral(s).int))

toFloat(s) ==
  LET num == Numeral(s)
      b   == NumeralBits(num)
  IN IF b.B = <<>> THEN FZero
     ELSE FromDouble(ToDouble(b.B, b.E, b.sticky))


\* a slip: the length test left out
HasPending_Always(s) == TRUE

\* inputStr.length() > 0
HasPending(s) == Len(s) > 0

\* slips for the range test: bounds included; upper bound forgotten;
\* 20000 mistyped as 2000; || for &&
InRange_Inclusive(newFreq) == FLeq(FREQ_MIN, newFreq) /\ FLeq(newFreq, FREQ_MAX)
InRange_NoUpper(newFreq) == FLess(FREQ_MIN, newFreq)
InRange_Upper2000(newFreq) == FLess(FREQ_MIN, newFreq) /\ FLess(newFreq, FInt(2000))
InRange_Or(newFreq) == FLess(FREQ_MIN, newFreq) \/ FLess(newFreq, FREQ_MAX)

\* newFreq > 20.0 && newFreq < 20000.0
InRange(newFreq) == FLess(FREQ_MIN, newFreq) /\ FLess(newFreq, FREQ_MAX)

(***************************************************************************)
(* generate_sine                                                           *)
(***************************************************************************)
\* a slip: the increment computed from the startup frequency only
PhaseInc_Stale(f) == FDiv(FMul(PI2, FREQ_DEFAULT), SAMPLE_RATE)

\* float phase_inc = PI2 * freq / SAMPLE_RATE;
PhaseInc(f) == FDiv(FMul(PI2, f), SAMPLE_RATE)

\* a slip: the wrap left out
Advance_NoWrap(ph, inc) == FAdd(ph, inc)

\* phase += phase_inc; if (phase >= PI2) phase -= PI2;
Advance(ph, inc) ==
  LET p == FAdd(ph, inc) IN IF FLeq(PI2, p) THEN FSub(p, PI2) ELSE p

\* the for loop: the phase after n frames
RECURSIVE SineLoop(_, _, _)
SineLoop(ph, inc, n) ==
  IF n = 0 THEN ph
  ELSE LET p == Advance(ph, inc)
       IN IF p.m >= 0 THEN SineLoop(p, inc, n - 1) ELSE p

\* int16_t v = (int16_t)(sin(phase) * AMPLITUDE): the sample of a frame is a
\* function of the phase at that frame and of nothing else.  Its value is
\* the build's sin, scaled and truncated; the model keeps the argument, which
\* determines it.
Sample(ph) == [sin |-> ph]

\* a slot the call has not written: it holds what the framework left there
Untouched == [sin |-> [m |-> -1, e |-> 0]]

\* a slip: the right slot written after the advance, with the next value
RECURSIVE SineSamples_RightLate(_, _, _)
SineSamples_RightLate(ph, inc, n) ==
  IF n = 0 THEN <<>>
  ELSE <<Sample(ph), Sample(Advance(ph, inc))>>
         \o SineSamples_RightLate(Advance(ph, inc), inc, n - 1)

\* buf[i * 2 + 0] = v; buf[i * 2 + 1] = v; for the n frames of the for loop:
\* the values written, in slot order
RECURSIVE SineSamples(_, _, _)
SineSamples(ph, inc, n) ==
  IF n = 0 THEN <<>>
  ELSE <<Sample(ph), Sample(ph)>> \o SineSamples(Advance(ph, inc), inc, n - 1)

\* a slip: >= for >, so that a warning counts as a fault
IsFault_AtLeastWarning(error_code) == error_code >= AS_ATTENTION_CODE_WARNING

\* error_code > AS_ATTENTION_CODE_WARNING
IsFault(error_code) == error_code > AS_ATTENTION_CODE_WARNING

(***************************************************************************)
(* Bounds of the model                                                     *)
(***************************************************************************)
MaxRead   == 6     \* characters read from Serial in one behaviour of Spec:
                   \* room for a line of five digits and its terminator
MaxGen    == 2     \* decode callbacks in one behaviour of Spec
MaxFrames == 4     \* the largest frame count of one decode callback
MaxLine   == 5     \* characters read in one behaviour of SpecLines

\* the characters Serial delivers in Spec (lines 9 .. 99999, below and above
\* the range as well as inside it), and in SpecLines
Chars      == {"9", "\n"}
LineChars  == {"0", "1", "2", "9", ".", "-", "\n", "\r"}
\* pcm_param.size / 4
FrameCounts == {0, 1, MaxFrames}
\* ErrorAttentionParam.error_code: INFORMATION, WARNING, ERROR, FATAL
ErrorCodes == 0 .. 3
\* what millis() returns at the debug test: no time, exactly 1000 ms and
\* more than 1000 ms after start
Millis == {0, 1000, 1001}
\* int16_t slots of the memory area behind pcm_param.mh: room for the largest
\* request and one frame more
BufSlots == 2 * MaxFrames + 2

\* the area after generate_sine(buf, n) on a buffer handed over by the
\* framework: slots 0 .. 2n-1 written, the others as they were
SineBuf(ph, inc, n) ==
  LET w == SineSamples(ph, inc, n)
  IN [k \in 0 .. BufSlots - 1 |-> IF k < 2 * n THEN w[k + 1] ELSE Untouched]

(***************************************************************************)
(* State                                                                   *)
(***************************************************************************)
VARIABLES
  pc,          \* where loop() stands: "refill", "serial", "check", "halted"
  inputStr,    \* static String inputStr
  c,           \* char c, the character read last ("" before the first read)
  freq,        \* float freq
  phase,       \* float phase
  frames,      \* player_decode_callback's frames of its latest call
  phase_inc,   \* generate_sine's phase_inc of its latest call
  err_flag,    \* bool err_flag
  serial_out,  \* what the latest step printed: "INFO" (frequency changed),
               \* "WARN", "ERROR", "REPORT" (the debug report) or ""
  line,        \* history: every character read since the last terminator
  accepted,    \* history: newFreq of the latest accepted line
  faultRefills,\* history: writeFrames calls of loop() made with err_flag set
  nread,       \* history: characters read so far
  ngen,        \* history: decode callbacks so far
  buf,         \* int16_t *buf: the sample slots of the latest decode request
  gen_i,       \* generate_sine's loop index i while a call is under way
  gen_pc,      \* where generate_sine stands: "idle" or "frames"
  phase_start, \* history: phase on entry to the latest generate_sine call
  faultReported, \* history: some report had a code above the warning level
  crlf,        \* history: 1 after '\r' ended a non-empty line, 2 when '\n'
               \* is read next, 0 otherwise
  last_debug,  \* static unsigned long last_debug
  phase_reg    \* the phase generate_sine computes with: the build may keep
               \* it in a register and store it in phase later in the call

vars == <<pc, inputStr, c, freq, phase, frames, phase_inc, err_flag, serial_out,
          line, accepted, faultRefills, nread, ngen, buf, gen_i, gen_pc,
          phase_start, faultReported, crlf, last_debug, phase_reg>>

Init ==
  /\ pc = "refill"
  /\ inputStr = <<>>
  /\ c = ""
  /\ freq = FREQ_DEFAULT
  /\ phase = FZero
  /\ frames = 0
  /\ phase_inc = FZero
  /\ err_flag = FALSE
  /\ serial_out = ""
  /\ line = <<>>
  /\ accepted = FREQ_DEFAULT
  /\ faultRefills = 0
  /\ nread = 0
  /\ ngen = 0
  /\ buf = [k \in 0 .. BufSlots - 1 |-> Untouched]
  /\ gen_i = 0
  /\ gen_pc = "idle"
  /\ phase_start = FZero
  /\ faultReported = FALSE
  /\ crlf = 0
  /\ last_debug = 0
  /\ phase_reg = FZero

(***************************************************************************)
(* loop()                                                                  *)
(***************************************************************************)
\* player->writeFrames(MediaPlayer::Player0, s_buffer, S_BUFFER_SIZE);
loop_writeFrames ==
  /\ pc = "refill"
  /\ pc' = "serial"
  /\ serial_out' = ""
  /\ faultRefills' = IF err_flag /\ faultRefills < 2 THEN faultRefills + 1
                                                    ELSE faultRefills
  /\ UNCHANGED <<inputStr, c, freq, phase, frames, phase_inc, err_flag, line,
                 accepted, nread, ngen, buf, gen_i, gen_pc, phase_start,
                 faultReported, crlf, last_debug, phase_reg>>

\* a slip: inputStr = "" moved into the accepting branch, so that a
\* rejected line stays in the buffer
loop_read_ClearOnApply(ch) ==
  /\ pc = "serial"
  /\ c' = ch
  /\ IF IsTerminator(ch)
     THEN IF HasPending(inputStr)
          THEN LET newFreq == toFloat(inputStr) IN
               /\ IF InRange(newFreq)
                  THEN /\ inputStr' = <<>>
                       /\ freq' = newFreq
                       /\ accepted' = newFreq
                       /\ serial_out' = "INFO"
                  ELSE /\ serial_out' = "WARN"
                       /\ UNCHANGED <<inputStr, freq, accepted>>
          ELSE /\ serial_out' = ""
               /\ UNCHANGED <<inputStr, freq, accepted>>
     ELSE /\ inputStr' = IF IsAccepted(ch) THEN Append(inputStr, ch)
                                           ELSE inputStr
          /\ serial_out' = ""
          /\ UNCHANGED <<freq, accepted>>
  /\ line' = IF IsTerminator(ch) THEN <<>> ELSE Append(line, ch)
  /\ nread' = nread + 1
  /\ crlf' = IF ch = "\r" /\ inputStr # <<>> THEN 1
             ELSE IF ch = "\n" /\ crlf = 1 THEN 2 ELSE 0
  /\ UNCHANGED <<pc, phase, frames, phase_inc, err_flag, faultRefills, ngen,
                 buf, gen_i, gen_pc, phase_start, faultReported, last_debug,
                 phase_reg>>

\* a slip: a buffer of 8 characters that drops what does not fit
loop_read_Capped(ch) ==
  /\ pc = "serial"
  /\ c' = ch
  /\ IF IsTerminator(ch)
     THEN IF HasPending(inputStr)
          THEN LET newFreq == toFloat(inputStr) IN
               /\ inputStr' = <<>>
               /\ IF InRange(newFreq)
                  THEN /\ freq' = newFreq
                       /\ accepted' = newFreq
                       /\ serial_out' = "INFO"
                  ELSE /\ serial_out' = "WARN"
                       /\ UNCHANGED <<freq, accepted>>
          ELSE /\ serial_out' = ""
               /\ UNCHANGED <<inputStr, freq, accepted>>
     ELSE /\ inputStr' = IF IsAccepted(ch) /\ Len(inputStr) < 8
                         THEN Append(inputStr, ch)
                                           ELSE inputStr
          /\ serial_out' = ""
          /\ UNCHANGED <<freq, accepted>>
  /\ line' = IF IsTerminator(ch) THEN <<>> ELSE Append(line, ch)
  /\ nread' = nread + 1
  /\ crlf' = IF ch = "\r" /\ inputStr # <<>> THEN 1
             ELSE IF ch = "\n" /\ crlf = 1 THEN 2 ELSE 0
  /\ UNCHANGED <<pc, phase, frames, phase_inc, err_flag, faultRefills, ngen,
                 buf, gen_i, gen_pc, phase_start, faultReported, last_debug,
                 phase_reg>>

\* a slip: inputStr = "" left out
loop_read_NoClear(ch) ==
  /\ pc = "serial"
  /\ c' = ch
  /\ IF IsTerminator(ch)
     THEN IF HasPending(inputStr)
          THEN LET newFreq == toFloat(inputStr) IN
               /\ inputStr' = inputStr
               /\ IF InRange(newFreq)
                  THEN /\ freq' = newFreq
                       /\ accepted' = newFreq
                       /\ serial_out' = "INFO"
                  ELSE /\ serial_out' = "WARN"
                       /\ UNCHANGED <<freq, accepted>>
          ELSE /\ serial_out' = ""
               /\ UNCHANGED <<inputStr, freq, accepted>>
     ELSE /\ inputStr' = IF IsAccepted(ch) THEN Append(inputStr, ch)
                                           ELSE inputStr
          /\ serial_out' = ""
          /\ UNCHANGED <<freq, accepted>>
  /\ line' = IF IsTerminator(ch) THEN <<>> ELSE Append(line, ch)
  /\ nread' = nread + 1
  /\ crlf' = IF ch = "\r" /\ inputStr # <<>> THEN 1
             ELSE IF ch = "\n" /\ crlf = 1 THEN 2 ELSE 0
  /\ UNCHANGED <<pc, phase, frames, phase_inc, err_flag, faultRefills, ngen,
                 buf, gen_i, gen_pc, phase_start, faultReported, last_debug,
                 phase_reg>>

\* one turn of the while loop: Serial.available() > 0, c = Serial.read()
loop_read(ch) ==
  /\ pc = "serial"
  /\ c' = ch
  /\ IF IsTerminator(ch)
     THEN IF HasPending(inputStr)
          THEN LET newFreq == toFloat(inputStr) IN
               /\ inputStr' = <<>>
               /\ IF InRange(newFreq)
                  THEN /\ freq' = newFreq
                       /\ accepted' = newFreq
                       /\ serial_out' = "INFO"
                  ELSE /\ serial_out' = "WARN"
                       /\ UNCHANGED <<freq, accepted>>
          ELSE /\ serial_out' = ""
               /\ UNCHANGED <<inputStr, freq, accepted>>
     ELSE /\ inputStr' = IF IsAccepted(ch) THEN Append(inputStr, ch)
                                           ELSE inputStr
          /\ serial_out' = ""
          /\ UNCHANGED <<freq, accepted>>
  /\ line' = IF IsTerminator(ch) THEN <<>> ELSE Append(line, ch)
  /\ nread' = nread + 1
  /\ crlf' = IF ch = "\r" /\ inputStr # <<>> THEN 1
             ELSE IF ch = "\n" /\ crlf = 1 THEN 2 ELSE 0
  /\ UNCHANGED <<pc, phase, frames, phase_inc, err_flag, faultRefills, ngen,
                 buf, gen_i, gen_pc, phase_start, faultReported, last_debug,
                 phase_reg>>

\* the while loop ends: Serial.available() == 0
loop_serial_done ==
  /\ pc = "serial"
  /\ pc' = "check"
  /\ serial_out' = ""
  /\ UNCHANGED <<inputStr, c, freq, phase, frames, phase_inc, err_flag, line,
                 accepted, faultRefills, nread, ngen, buf, gen_i, gen_pc,
                 phase_start, faultReported, crlf, last_debug, phase_reg>>

\* a slip: the halt message printed, but no while (1)
loop_check_NoHalt(now) ==
  /\ pc = "check"
  /\ pc' = "refill"
  /\ serial_out' = IF err_flag THEN "ERROR" ELSE ""
  /\ UNCHANGED <<inputStr, c, freq, phase, frames, phase_inc, err_flag, line,
                 accepted, faultRefills, nread, ngen, buf, gen_i, gen_pc,
                 phase_start, faultReported, crlf, last_debug, phase_reg>>

\* a slip: the fault acknowledged and cleared, and loop() carries on
loop_check_Recover(now) ==
  /\ pc = "check"
  /\ pc' = "refill"
  /\ err_flag' = FALSE
  /\ serial_out' = IF err_flag THEN "ERROR" ELSE ""
  /\ UNCHANGED <<inputStr, c, freq, phase, frames, phase_inc, line,
                 accepted, faultRefills, nread, ngen, buf, gen_i, gen_pc,
                 phase_start, faultReported, crlf, last_debug, phase_reg>>

\* millis() - last_debug > 1000, in unsigned long arithmetic: a clock value
\* below last_debug wraps to a difference near 2^32.  The values of the
\* model stay below 2^31.
DebugDue(now, last) == IF now >= last THEN now - last > 1000 ELSE TRUE

\* if (err_flag) { println; player->stop; while (1); }  else the debug
\* report, when more than 1000 ms have passed since the last one, and
\* usleep(100), and loop() is called again.  now is what millis() returns.
loop_check(now) ==
  /\ pc = "check"
  /\ IF err_flag
     THEN /\ pc' = "halted"
          /\ serial_out' = "ERROR"
          /\ last_debug' = last_debug
     ELSE /\ pc' = "refill"
          /\ IF DebugDue(now, last_debug)
             THEN serial_out' = "REPORT" /\ last_debug' = now
             ELSE serial_out' = "" /\ last_debug' = last_debug
  /\ UNCHANGED <<inputStr, c, freq, phase, frames, phase_inc, err_flag, line,
                 accepted, faultRefills, nread, ngen, buf, gen_i, gen_pc,
                 phase_start, faultReported, crlf, phase_reg>>

(***************************************************************************)
(* Callbacks of the audio framework                                        *)
(***************************************************************************)
\* a slip: every call starts its waveform over, at phase 0
player_decode_callback_ResetPhase(n) ==
  /\ gen_pc = "idle"
  /\ frames' = n
  /\ phase_inc' = PhaseInc(freq)
  /\ phase' = SineLoop(FZero, PhaseInc(freq), n)
  /\ phase_reg' = phase'
  /\ buf' = SineBuf(FZero, PhaseInc(freq), n)
  /\ phase_start' = phase
  /\ serial_out' = ""
  /\ ngen' = ngen + 1
  /\ UNCHANGED <<pc, inputStr, c, freq, err_flag, line, accepted,
                 faultRefills, nread, gen_i, gen_pc, faultReported, crlf,
                 last_debug>>

\* a slip: the callback empties the pending input buffer
player_decode_callback_ClearsInput(n) ==
  /\ gen_pc = "idle"
  /\ frames' = n
  /\ phase_inc' = PhaseInc(freq)
  /\ phase' = SineLoop(phase, PhaseInc(freq), n)
  /\ phase_reg' = phase'
  /\ buf' = SineBuf(phase, PhaseInc(freq), n)
  /\ phase_start' = phase
  /\ inputStr' = <<>>
  /\ serial_out' = ""
  /\ ngen' = ngen + 1
  /\ UNCHANGED <<pc, c, freq, err_flag, line, accepted,
                 faultRefills, nread, gen_i, gen_pc, faultReported, crlf,
                 last_debug>>

\* player_decode_callback: frames = pcm_param.size / 4; generate_sine, whole;
\* sendData.  Nothing in it looks at loop(): the player may call it in any
\* state of loop(), the halt included (player->stop at line 162 is a request
\* whose completion loop() does not wait for).
player_decode_callback(n) ==
  /\ gen_pc = "idle"
  /\ frames' = n
  /\ phase_inc' = PhaseInc(freq)
  /\ phase' = SineLoop(phase, PhaseInc(freq), n)
  /\ phase_reg' = phase'
  /\ buf' = SineBuf(phase, PhaseInc(freq), n)
  /\ phase_start' = phase
  /\ serial_out' = ""
  /\ ngen' = ngen + 1
  /\ UNCHANGED <<pc, inputStr, c, freq, err_flag, line, accepted,
                 faultRefills, nread, gen_i, gen_pc, faultReported, crlf,
                 last_debug>>

error_callback(error_code) ==
  /\ err_flag' = (err_flag \/ IsFault(error_code))
  /\ faultReported' =
       (faultReported \/ error_code \in {x \in ErrorCodes : x > AS_ATTENTION_CODE_WARNING})
  /\ serial_out' = ""
  /\ UNCHANGED <<pc, inputStr, c, freq, phase, frames, phase_inc, line,
                 accepted, faultRefills, nread, ngen, buf, gen_i, gen_pc,
                 phase_start, crlf, last_debug, phase_reg>>

(***************************************************************************)
(* Spec: loop() with the callbacks arriving between its steps              *)
(***************************************************************************)
Read     == \E ch \in Chars : nread < MaxRead /\ loop_read(ch)
Decode   == \E n \in FrameCounts :
              ngen < MaxGen /\ player_decode_callback(n)
Attention == \E error_code \in ErrorCodes : error_callback(error_code)
\* the clock does not run backwards
Check    == \E now \in Millis : now >= last_debug /\ loop_check(now)

Next ==
  \/ loop_writeFrames
  \/ Read
  \/ loop_serial_done
  \/ Check
  \/ Decode
  \/ Attention

Spec == Init /\ [][Next]_vars

\* a step of loop()
LoopStep == loop_writeFrames \/ Read \/ loop_serial_done \/ Check

\* loop() keeps being scheduled: the Arduino core calls loop() again whenever
\* it returns and no statement of loop() blocks, so the refill and the
\* err_flag test are reached; the serial line delivers characters more slowly
\* than the while loop reads them, so Serial.available() returns 0 and the
\* while loop ends
SpecFair ==
  /\ Spec
  /\ WF_vars(loop_writeFrames)
  /\ WF_vars(loop_serial_done)
  /\ WF_vars(Check)

(***************************************************************************)
(* SpecLines: the serial branch alone, fed with every line of at most      *)
(* MaxLine characters over LineChars, starting with an empty buffer or     *)
(* with a buffer that earlier reads have left next to a range boundary.    *)
(***************************************************************************)
StartBuffers ==
  { <<>>, <<"2", "0", ".", "0", "0", "0">>, <<"1", "9", "9", "9", "9", ".">> }

InitLines ==
  /\ pc = "serial"
  /\ inputStr \in StartBuffers
  /\ line = inputStr
  /\ c = IF inputStr = <<>> THEN "" ELSE inputStr[Len(inputStr)]
  /\ freq = FREQ_DEFAULT
  /\ phase = FZero
  /\ frames = 0
  /\ phase_inc = FZero
  /\ err_flag = FALSE
  /\ serial_out = ""
  /\ accepted = FREQ_DEFAULT
  /\ faultRefills = 0
  /\ nread = 0
  /\ ngen = 0
  /\ buf = [k \in 0 .. BufSlots - 1 |-> Untouched]
  /\ gen_i = 0
  /\ gen_pc = "idle"
  /\ phase_start = FZero
  /\ faultReported = FALSE
  /\ crlf = 0
  /\ last_debug = 0
  /\ phase_reg = FZero

ReadLine == \E ch \in LineChars : nread < MaxLine /\ loop_read(ch)

NextLines == ReadLine

SpecLines == InitLines /\ [][NextLines]_vars

(***************************************************************************)
(* SpecRange: the serial branch alone, as in SpecLines, starting with the  *)
(* buffer "2000" that earlier reads have left: one more digit gives the    *)
(* upper bound 20000 or a value above it, a terminator applies 2000 and    *)
(* the lines after it fall below, on and above the lower bound 20.         *)
(***************************************************************************)
UpperBuffer == <<"2", "0", "0", "0">>

InitRange ==
  /\ pc = "serial"
  /\ inputStr = UpperBuffer
  /\ line = inputStr
  /\ c = inputStr[Len(inputStr)]
  /\ freq = FREQ_DEFAULT
  /\ phase = FZero
  /\ frames = 0
  /\ phase_inc = FZero
  /\ err_flag = FALSE
  /\ serial_out = ""
  /\ accepted = FREQ_DEFAULT
  /\ faultRefills = 0
  /\ nread = 0
  /\ ngen = 0
  /\ buf = [k \in 0 .. BufSlots - 1 |-> Untouched]
  /\ gen_i = 0
  /\ gen_pc = "idle"
  /\ phase_start = FZero
  /\ faultReported = FALSE
  /\ crlf = 0
  /\ last_debug = 0
  /\ phase_reg = FZero

SpecRange == InitRange /\ [][NextLines]_vars

(***************************************************************************)
(* SpecFrames: generate_sine taken one frame at a time, with the serial     *)
(* branch of loop() reading characters between the frames of a call.       *)
(***************************************************************************)
\* player_decode_callback up to the for loop: frames = pcm_param.size / 4;
\* float phase_inc = PI2 * freq / SAMPLE_RATE; i = 0
gen_begin(n) ==
  /\ gen_pc = "idle"
  /\ gen_pc' = "frames"
  /\ frames' = n
  /\ phase_inc' = PhaseInc(freq)
  /\ gen_i' = 0
  /\ phase_reg' = phase
  /\ buf' = [k \in 0 .. BufSlots - 1 |-> Untouched]
  /\ phase_start' = phase
  /\ serial_out' = ""
  /\ UNCHANGED <<pc, inputStr, c, freq, phase, err_flag, line, accepted,
                 faultRefills, nread, ngen, faultReported, crlf, last_debug>>

\* a slip: the increment computed anew from freq in every frame
gen_frame_RereadsFreq ==
  /\ gen_pc = "frames"
  /\ gen_i < frames
  /\ buf' = [buf EXCEPT ![gen_i * 2 + 0] = Sample(phase_reg),
                        ![gen_i * 2 + 1] = Sample(phase_reg)]
  /\ phase_inc' = PhaseInc(freq)
  /\ phase_reg' = Advance(phase_reg, PhaseInc(freq))
  /\ phase' \in {phase_reg', phase}
  /\ gen_i' = gen_i + 1
  /\ serial_out' = ""
  /\ UNCHANGED <<pc, inputStr, c, freq, frames, err_flag, line,
                 accepted, faultRefills, nread, ngen, gen_pc, phase_start,
                 faultReported, crlf, last_debug>>

\* one turn of the for loop: i < frames; v; buf[i*2+0] = v; buf[i*2+1] = v;
\* phase += phase_inc; if (phase >= PI2) phase -= PI2; i++.  phase is an
\* ordinary global: the build either stores it in every turn (-O0) or keeps
\* it in a register and stores it after the loop (-O2), so after a turn the
\* global holds the new value or still an earlier one.
gen_frame ==
  /\ gen_pc = "frames"
  /\ gen_i < frames
  /\ buf' = [buf EXCEPT ![gen_i * 2 + 0] = Sample(phase_reg),
                        ![gen_i * 2 + 1] = Sample(phase_reg)]
  /\ phase_reg' = Advance(phase_reg, phase_inc)
  /\ phase' \in {phase_reg', phase}
  /\ gen_i' = gen_i + 1
  /\ serial_out' = ""
  /\ UNCHANGED <<pc, inputStr, c, freq, frames, phase_inc, err_flag, line,
                 accepted, faultRefills, nread, ngen, gen_pc, phase_start,
                 faultReported, crlf, last_debug>>

\* the for loop ends, i == frames, and the global phase holds the value the
\* loop reached; mixer->sendData; the callback returns
gen_end ==
  /\ gen_pc = "frames"
  /\ gen_i >= frames
  /\ gen_pc' = "idle"
  /\ gen_i' = 0
  /\ ngen' = ngen + 1
  /\ phase' = phase_reg
  /\ serial_out' = ""
  /\ UNCHANGED <<pc, inputStr, c, freq, frames, phase_inc, err_flag,
                 line, accepted, faultRefills, nread, buf, phase_start,
                 faultReported, crlf, last_debug, phase_reg>>

\* the characters Serial delivers in SpecFrames
FrameChars == {"9", "\n"}

InitFrames ==
  /\ pc = "serial"
  /\ inputStr = <<>>
  /\ c = ""
  /\ freq = FREQ_DEFAULT
  /\ phase = FZero
  /\ frames = 0
  /\ phase_inc = FZero
  /\ err_flag = FALSE
  /\ serial_out = ""
  /\ line = <<>>
  /\ accepted = FREQ_DEFAULT
  /\ faultRefills = 0
  /\ nread = 0
  /\ ngen = 0
  /\ buf = [k \in 0 .. BufSlots - 1 |-> Untouched]
  /\ gen_i = 0
  /\ gen_pc = "idle"
  /\ phase_start = FZero
  /\ faultReported = FALSE
  /\ crlf = 0
  /\ last_debug = 0
  /\ phase_reg = FZero

ReadFrames == \E ch \in FrameChars : nread < MaxRead /\ loop_read(ch)
GenBegin   == \E n \in FrameCounts : ngen < MaxGen /\ gen_begin(n)

NextFrames ==
  \/ ReadFrames
  \/ GenBegin
  \/ gen_frame
  \/ gen_end

SpecFrames == InitFrames /\ [][NextFrames]_vars


(***************************************************************************)
(* Reading values for the properties.  These compare a float with an       *)
(* integer, and a decimal numeral with a float, by integer arithmetic on   *)
(* the digits; they use neither FLess nor the rounding of toFloat.         *)
(***************************************************************************)
\* floor(x), and whether x has a fractional part
IntPart(x) ==
  IF x.e >= 0 THEN x.m * 2^x.e
  ELSE IF -x.e >= 24 THEN 0 ELSE x.m \div 2^(-x.e)

HasFrac(x) ==
  /\ x.e < 0
  /\ IF -x.e >= 24 THEN x.m # 0 ELSE x.m % 2^(-x.e) # 0

\* x is the integer n
IsInt(x, n) == IntPart(x) = n /\ ~HasFrac(x)

\* 20 < x < 20000
StrictlyInside(x) ==
  /\ IntPart(x) > 20 \/ (IntPart(x) = 20 /\ HasFrac(x))
  /\ IntPart(x) < 20000

\* x is a well-formed value: zero, or a normalised mantissa
IsFloat(x) == (x.m = 0 /\ x.e = 0) \/ (P23 <= x.m /\ x.m < P24)

\* s, whole, is a decimal numeral: digits [ "." digits ] with a digit in it
IsNumeral(s) ==
  LET num == Numeral(s)
  IN /\ Len(num.int) + Len(num.frac) > 0
     /\ \/ s = num.int
        \/ s = num.int \o <<".">> \o num.frac

\* the decimal value I + F / 10^k of the numeral that s starts with
DecI(s) == DigitsVal(Numeral(s).int)
DecF(s) == DigitsVal(Numeral(s).frac)
DecD(s) == 10^Len(Numeral(s).frac)

\* 20 < value < 20000, value <= 20, value >= 20000, on the decimal value
DecInside(s) == (DecI(s) > 20 \/ (DecI(s) = 20 /\ DecF(s) > 0)) /\ DecI(s) < 20000
DecOutside(s) == ~DecInside(s)

\* the decimal value lies within half a float step of a bound, so that its
\* nearest float is the bound itself: value <= 20 + 2^-20, or
\* value >= 20000 - 2^-10
NearBound(s) ==
  \/ DecI(s) = 20 /\ DecF(s) <= DecD(s) \div 2^20
  \/ DecI(s) = 19999 /\ DecD(s) - DecF(s) <= DecD(s) \div 2^10

\* twice the distance from x to the decimal value of s, in units of the
\* last mantissa bit of x: x = m / 2^n, and q + r/D = 2^(n+1) * F / D
Gap(x, s) ==
  LET n  == -x.e
      qr == DivBits(0, DecF(s), DecD(s), n + 1)
  IN [t |-> 2 * (x.m - DecI(s) * 2^n), q |-> qr.q, r |-> qr.r]

\* x is the decimal value of s exactly
IsExactly(x, s) ==
  /\ x.m > 0 /\ x.e < 0
  /\ IntPart(x) = DecI(s)
  /\ LET g == Gap(x, s) IN g.q = g.t /\ g.r = 0

\* x is a float nearest to the decimal value of s: at most half a step away
IsNearest(x, s) ==
  /\ x.m > 0 /\ x.e < 0
  /\ IntPart(x) \in {DecI(s), DecI(s) + 1}
  /\ LET g == Gap(x, s)
     IN /\ g.t - 1 <= g.q
        /\ g.q < g.t + 1 \/ (g.q = g.t + 1 /\ g.r = 0)

\* a step of loop() that reads a terminator
ReadsTerminator == \E t \in Terminators : loop_read(t)


(***************************************************************************)
(* C1  accepted lines                                                      *)
(***************************************************************************)
\* C1, as claimed: when the buffer holds the numeral of a value f with
\* 20 < f < 20000 and a terminator is read, the frequency becomes exactly f.
C1_ExactlyF ==
  [][(ReadsTerminator /\ IsNumeral(inputStr) /\ DecInside(inputStr))
       => IsExactly(freq', inputStr)]_vars

\* C1, amended: when the buffer holds the numeral, of at most 9 fraction
\* digits, of a value f with 20 < f < 20000 and a terminator is read, then,
\* unless f lies within half a float step of a bound (f <= 20 + 2^-20 or
\* f >= 20000 - 2^-10), the line is applied and the frequency becomes a float
\* nearest to f, which is f itself when f is a float; a value that close to a
\* bound rounds to 20 or to 20000 and is rejected with the frequency
\* unchanged.  (With 12 fraction digits or more the rounding to double that
\* comes first can move the result one float step away from the nearest.)
C1_NearestF ==
  [][(ReadsTerminator /\ IsNumeral(inputStr)
        /\ Len(Numeral(inputStr).frac) <= 9 /\ DecInside(inputStr))
       => IF NearBound(inputStr)
          THEN serial_out' = "WARN" /\ freq' = freq
          ELSE serial_out' = "INFO" /\ IsNearest(freq', inputStr)]_vars

\* the line "20.1" has been applied: the frequency is the float next to
\* 20.1, 10538189 * 2^-19, which is not 20.1
C1_Witness ==
  /\ IsTerminator(c) /\ serial_out = "INFO"
  /\ freq = [m |-> 10538189, e |-> -19]


(***************************************************************************)
(* C2  rejected lines                                                      *)
(***************************************************************************)
\* the line read denotes a value <= 20 or >= 20000: a numeral of such a
\* value (zero and the bounds among them), a negative numeral, or garbage
\* without any digit
DenotesOutside(l) ==
  \/ IsNumeral(l) /\ DecOutside(l)
  \/ l # <<>> /\ Head(l) = "-" /\ IsNumeral(Tail(l))
  \/ l # <<>> /\ \A i \in 1 .. Len(l) : l[i] \notin Digits

\* C2, as claimed: when a terminator ends a line that denotes a value <= 20
\* or >= 20000, a negative value or non-numeric garbage, the frequency is
\* unchanged.
C2_OutsideUnchanged ==
  [][(ReadsTerminator /\ DenotesOutside(line)) => freq' = freq]_vars

\* C2, amended: the line is judged by the digits and points that reached the
\* buffer, the other characters (a minus sign among them) having been
\* dropped.  When the numeral the buffer starts with has a value <= 20 or
\* >= 20000 (0 when it starts with no numeral, as for "."; the bounds 20 and
\* 20000 included), the terminator leaves the frequency unchanged and, the
\* buffer being non-empty, prints the warning.  "-440" is applied as 440.
C2_BufferOutsideUnchanged ==
  [][(ReadsTerminator /\ DecOutside(inputStr))
       => /\ freq' = freq
          /\ inputStr # <<>> => serial_out' = "WARN"]_vars

\* one more digit was read after "2000" and then a terminator: the line, of
\* a value from 20000 on, has been rejected and the frequency is still 440
C2_Witness ==
  /\ nread = 2 /\ IsTerminator(c) /\ serial_out = "WARN"
  /\ inputStr = <<>> /\ freq = FREQ_DEFAULT

(***************************************************************************)
(* C3  the frequency stays in range                                        *)
(***************************************************************************)
\* C3: in every reachable state the frequency is the default 440 or a value
\* strictly between 20 and 20000.
C3_FreqInRange == freq = FREQ_DEFAULT \/ StrictlyInside(freq)

\* a command has changed the frequency, the generator has run and a fault
\* has been signalled
C3_Witness ==
  freq # FREQ_DEFAULT /\ StrictlyInside(freq) /\ ngen > 0 /\ err_flag

(***************************************************************************)
(* C4  the line 9999                                                       *)
(***************************************************************************)
\* C4, as claimed: the terminator "\n" read with "9999" in the buffer prints
\* the warning (Rejected) and leaves the frequency unchanged.
C4_Rejected9999 ==
  [][(loop_read("\n") /\ inputStr = <<"9", "9", "9", "9">>)
       => serial_out' = "WARN" /\ freq' = freq]_vars

\* C4, amended: the terminator "\n" read with "9999" in the buffer prints the
\* information line (Applied) and sets the frequency to 9999.
C4_Applied9999 ==
  [][(loop_read("\n") /\ inputStr = <<"9", "9", "9", "9">>)
       => serial_out' = "INFO" /\ IsInt(freq', 9999)]_vars

\* "9999\n" has been read from the start: the frequency is 9999
C4_Witness ==
  nread = 5 /\ c = "\n" /\ serial_out = "INFO" /\ IsInt(freq, 9999)


(***************************************************************************)
(* C5  the phase stays within one cycle                                    *)
(***************************************************************************)
\* x < PI2, read off the mantissa and exponent
BelowCycle(x) ==
  x.m = 0 \/ x.e < PI2.e \/ (x.e = PI2.e /\ x.m < PI2.m)

\* C5: in every reachable state phase is a float with 0 <= phase < PI2, and
\* the increment of the latest generate_sine call is below PI2.
C5_PhaseInCycle ==
  IsFloat(phase) /\ BelowCycle(phase) /\ BelowCycle(phase_inc)

\* the latest call ran at least one frame and its last frame wrapped: the
\* phase is below the increment just added to it
C5_Witness ==
  ngen = 2 /\ frames >= 1 /\ phase.m > 0 /\ FLess(phase, phase_inc)

(***************************************************************************)
(* C6  after a fault                                                       *)
(***************************************************************************)
\* a step of loop() that refills the player or reads a command character
RefillOrRead == loop_writeFrames \/ \E ch \in Chars : loop_read(ch)

\* C6, as claimed: once err_flag is set, no step refills the player and no
\* step reads a command character.
C6_NoStepAfterFault == [][err_flag => ~RefillOrRead]_vars

\* C6, amended: once err_flag is set, loop() finishes the iteration it is in
\* or about to begin - at most one more refill, and the serial pass of that
\* iteration still reads command characters - and halts at the err_flag test
\* that ends the iteration; once halted, no step refills the player or reads
\* a command character.
C6_HaltsWithinOneIteration ==
  /\ [](faultRefills <= 1)
  /\ [][(err_flag /\ \E now \in Millis : loop_check(now))
         => pc' = "halted"]_vars
  /\ [][pc = "halted" => (pc' = "halted" /\ ~RefillOrRead)]_vars

\* the fault came before a refill: one refill was made with the flag set,
\* and loop() has halted
C6_Witness == pc = "halted" /\ err_flag /\ faultRefills = 1

(***************************************************************************)
(* C7  the generator uses the latest accepted frequency                    *)
(***************************************************************************)
\* C7: every decode callback - the one step that counts a call in ngen -
\* computes its increment from the value of the latest accepted line (440
\* when no line was accepted).
C7_UsesLatestAccepted ==
  [][ngen' # ngen
       => phase_inc' = FDiv(FMul(PI2, accepted), SAMPLE_RATE)]_vars

\* a line was accepted and a later call ran frames with its increment
C7_Witness ==
  /\ accepted # FREQ_DEFAULT /\ frames >= 1
  /\ phase_inc = FDiv(FMul(PI2, accepted), SAMPLE_RATE)

(***************************************************************************)
(* C8  empty lines                                                         *)
(***************************************************************************)
\* C8: a terminator read with the buffer empty leaves frequency, phase and
\* buffer unchanged and prints nothing.
C8_EmptyLineNoOp ==
  [][(ReadsTerminator /\ inputStr = <<>>)
       => /\ freq' = freq /\ phase' = phase /\ inputStr' = inputStr
          /\ serial_out' = ""]_vars

\* two reads at least, the latest a terminator that found the buffer empty
C8_Witness ==
  nread >= 2 /\ c \in Terminators /\ serial_out = "" /\ inputStr = <<>>

(***************************************************************************)
(* C9  the buffer is cleared by every terminator                           *)
(***************************************************************************)
\* C9: whenever the character read last is a terminator, the buffer is empty.
C9_ClearedByTerminator == c \in Terminators => inputStr = <<>>

\* a rejected line has just been terminated
C9_Witness == c \in Terminators /\ serial_out = "WARN" /\ inputStr = <<>>

(***************************************************************************)
(* C10  one outcome per non-empty line                                     *)
(***************************************************************************)
\* C10: a terminator read with the buffer non-empty prints the information
\* line and sets the frequency to the parsed value when that value is
\* strictly between 20 and 20000, and otherwise prints the warning and
\* leaves the frequency unchanged.
C10_AppliedIffInside ==
  [][(ReadsTerminator /\ inputStr # <<>>)
       => IF StrictlyInside(toFloat(inputStr))
          THEN serial_out' = "INFO" /\ freq' = toFloat(inputStr)
          ELSE serial_out' = "WARN" /\ freq' = freq]_vars

\* "100" has been applied
C10_Witness == c \in Terminators /\ serial_out = "INFO" /\ IsInt(freq, 100)

(***************************************************************************)
(* C11  other characters are discarded                                     *)
(***************************************************************************)
\* the digits and points of l, in the order they stand in l
Kept(l) == SelectSeq(l, LAMBDA x : x \in Digits \cup {"."})

\* the characters Serial delivers that are neither digit, point nor terminator
OtherChars == LineChars \ (Digits \cup {"."} \cup Terminators)

\* C11: reading a character that is neither a digit, a point nor a terminator
\* leaves the buffer, the frequency, the phase and the fault flag unchanged
\* and prints nothing; and in every reachable state the buffer is the digits
\* and points read since the last terminator, in the order they were read.
C11_OthersDiscarded ==
  /\ [](inputStr = Kept(line))
  /\ [][\A ch \in OtherChars :
          loop_read(ch) => /\ inputStr' = inputStr /\ freq' = freq
                           /\ phase' = phase /\ err_flag' = err_flag
                           /\ serial_out' = ""]_vars

\* "2-1" has been read: the buffer holds "21"
C11_Witness ==
  line = <<"2", "-", "1">> /\ inputStr = <<"2", "1">> /\ freq = FREQ_DEFAULT

(***************************************************************************)
(* C12  two calls in a row continue one waveform                           *)
(***************************************************************************)
\* the n frames a call wrote into b, as a sequence of 2n slot values
Written(b, n) == [k \in 1 .. 2 * n |-> b[k - 1]]

\* C12: when a decode callback follows another one and the frequency gives
\* the increment the earlier call used, the two calls, of N and of M frames,
\* leave the phase and write the samples that one call of N + M frames
\* started where the earlier call started would; the first sample of the
\* later call is computed from the phase the earlier call left.
C12_SplitCallsContinue ==
  [][(ngen' # ngen /\ ngen >= 1 /\ PhaseInc(freq) = phase_inc)
       => /\ phase' = SineLoop(phase_start, phase_inc, frames + frames')
          /\ Written(buf, frames) \o Written(buf', frames')
               = SineSamples(phase_start, phase_inc, frames + frames')
          /\ frames' >= 1 => buf'[0] = Sample(phase)]_vars

\* no character was read; a call of one frame and then a call of MaxFrames
\* frames have run at 440 Hz
C12_Witness ==
  /\ nread = 0 /\ ngen = 2 /\ frames = MaxFrames
  /\ phase_start = SineLoop(FZero, PhaseInc(FREQ_DEFAULT), 1)
  /\ phase = SineLoop(FZero, PhaseInc(FREQ_DEFAULT), 1 + MaxFrames)
  /\ buf[0] = Sample(phase_start)

(***************************************************************************)
(* C13  each line is judged on its own                                     *)
(***************************************************************************)
\* what a terminator prints for the line l, from the characters of l alone
LineOutcome(l) ==
  IF Kept(l) = <<>> THEN ""
  ELSE IF StrictlyInside(toFloat(Kept(l))) THEN "INFO" ELSE "WARN"

\* C13: what a terminator prints, and the frequency it stores when it stores
\* one, are functions of the characters read since the previous terminator;
\* when it stores none the frequency stays as it was.
C13_LinesIndependent ==
  [][ReadsTerminator
       => LET out == LineOutcome(line)
          IN /\ serial_out' = out
             /\ freq' = IF out = "INFO" THEN toFloat(Kept(line)) ELSE freq]_vars

\* "21" was applied and the one-character line after it has been rejected
C13_Witness ==
  /\ nread = 5 /\ c \in Terminators /\ serial_out = "WARN"
  /\ IsInt(freq, 21) /\ line = <<>>

(***************************************************************************)
(* C14  the fault is absorbing and leads to the halt                       *)
(***************************************************************************)
\* C14: err_flag, once true, stays true; while loop() keeps being scheduled
\* a set err_flag leads to the halt; and once halted loop() takes no step:
\* no refill, no character read, no check, and pc stays "halted".
C14_FaultLeadsToHalt ==
  /\ [][err_flag => err_flag']_vars
  /\ err_flag ~> (pc = "halted")
  /\ [][pc = "halted" => (pc' = "halted" /\ ~LoopStep)]_vars

\* the fault was signalled while loop() read the serial line, after a
\* character had been read, and loop() has halted without another refill
C14_Witness ==
  /\ pc = "halted" /\ err_flag /\ serial_out = "ERROR"
  /\ faultRefills = 0 /\ nread >= 1

(***************************************************************************)
(* C15  only a report above the warning level sets the flag                *)
(***************************************************************************)
\* C15: a report whose code is at or below the warning level leaves err_flag
\* as it was; a step that sets err_flag is a report whose code is above the
\* warning level; and in every state where err_flag is true, or loop() has
\* halted, some earlier report had a code above the warning level.
C15_FlagOnlyAboveWarning ==
  /\ [][\A code \in ErrorCodes :
          (code <= AS_ATTENTION_CODE_WARNING /\ error_callback(code))
            => err_flag' = err_flag]_vars
  /\ [][(~err_flag /\ err_flag')
         => \E code \in ErrorCodes :
              code > AS_ATTENTION_CODE_WARNING /\ error_callback(code)]_vars
  /\ []((err_flag \/ pc = "halted") => faultReported)

\* a report above the warning level came in while loop() stood before its
\* err_flag test; the flag is set and loop() has not halted yet
C15_Witness == err_flag /\ faultReported /\ pc = "check" /\ faultRefills = 0

(***************************************************************************)
(* C16  the generator and the command path leave each other's state alone  *)
(***************************************************************************)
\* C16: a decode callback leaves the frequency, the pending input buffer and
\* the fault flag as they were, and so does it leave loop()'s position and
\* the character read last; reading a character leaves the phase, the
\* increment and the sample buffer as they were.
C16_GeneratorAndCommandsApart ==
  /\ [][ngen' # ngen
         => /\ freq' = freq /\ inputStr' = inputStr /\ err_flag' = err_flag
            /\ pc' = pc /\ c' = c]_vars
  /\ [][nread' # nread
         => phase' = phase /\ phase_inc' = phase_inc /\ buf' = buf]_vars

\* a call has run frames at a frequency a command set, with characters
\* pending in the buffer and the fault flag set
C16_Witness ==
  /\ frames >= 1 /\ phase.m > 0
  /\ freq # FREQ_DEFAULT /\ phase_inc = PhaseInc(freq)
  /\ inputStr # <<>> /\ err_flag

(***************************************************************************)
(* C17  the slots a call writes                                            *)
(***************************************************************************)
\* C17: in every reachable state the slots written by the latest request, of
\* frames frames, are the slots 0 .. 2*frames-1 and no others, and the left
\* slot 2f and the right slot 2f+1 of every frame f hold the same value.
C17_WritesRequestedSlots ==
  /\ \A k \in 0 .. BufSlots - 1 : (buf[k] # Untouched) <=> (k < 2 * frames)
  /\ \A f \in 0 .. frames - 1 : buf[2 * f] = buf[2 * f + 1]

\* a request of MaxFrames frames was served from a phase other than 0: its
\* last frame is written, the slot after it is not, and the frames differ
C17_Witness ==
  /\ frames = MaxFrames /\ phase_start.m > 0
  /\ buf[2 * MaxFrames - 1] = buf[2 * MaxFrames - 2]
  /\ buf[2 * MaxFrames - 1] # Untouched
  /\ buf[2 * MaxFrames - 1] # buf[0]
  /\ buf[2 * MaxFrames] = Untouched

(***************************************************************************)
(* C18  the buffer has no length cap                                       *)
(***************************************************************************)
\* C18: in every reachable state the length of the buffer is the number of
\* digits and points read since the last terminator; reading a digit or a
\* point puts it at the end of the buffer whatever the length, prints
\* nothing and leaves the frequency alone.
C18_NoLengthCap ==
  /\ [](Len(inputStr)
          = Cardinality({k \in 1 .. Len(line) : line[k] \in Digits \cup {"."}}))
  /\ [][\A ch \in Digits \cup {"."} :
          loop_read(ch) => /\ inputStr' = Append(inputStr, ch)
                           /\ serial_out' = "" /\ freq' = freq]_vars

\* every character read was a digit or a point and went into a buffer that
\* held six characters already
C18_Witness == nread = MaxLine /\ Len(inputStr) = 6 + MaxLine

(***************************************************************************)
(* C19  a line ended by '\r', '\n'                                         *)
(***************************************************************************)
\* C19: '\r' read with the buffer non-empty prints one outcome and empties
\* the buffer; '\n' read next prints nothing and leaves the frequency and
\* the empty buffer as they are.
C19_CrLfOneOutcome ==
  /\ [][(loop_read("\r") /\ inputStr # <<>>)
         => /\ serial_out' \in {"INFO", "WARN"}
            /\ inputStr' = <<>> /\ crlf' = 1]_vars
  /\ [][(loop_read("\n") /\ crlf = 1)
         => /\ serial_out' = "" /\ freq' = freq
            /\ inputStr = <<>> /\ inputStr' = <<>> /\ crlf' = 2]_vars

\* '\r' applied a line and the '\n' after it has been read
C19_Witness ==
  /\ crlf = 2 /\ c = "\n" /\ serial_out = "" /\ inputStr = <<>>
  /\ freq # FREQ_DEFAULT

(***************************************************************************)
(* C20  commands between the frames of a call                              *)
(***************************************************************************)
\* C20: with characters read between the frames of a generate_sine call, the
\* call takes its increment from the frequency it finds on entry; no frame
\* and no character read changes that increment; every frame adds it, wrapping
\* once, to the phase the call computes with, so that this phase is the phase
\* on entry advanced gen_i times by the one increment; the global phase,
\* which the build may store in every frame or only after the loop, holds
\* during the call the phase on entry advanced at most gen_i times and, once
\* the call has returned, the phase the call reached; and in every reachable
\* state 0 <= phase < PI2.
C20_FramesShareIncrement ==
  /\ [][(gen_pc = "idle" /\ gen_pc' = "frames")
         => phase_inc' = PhaseInc(freq) /\ phase_reg' = phase]_vars
  /\ [][gen_pc = "frames" => phase_inc' = phase_inc]_vars
  /\ [][gen_i' = gen_i + 1 => phase_reg' = Advance(phase_reg, phase_inc)]_vars
  /\ [](gen_pc = "frames"
          => /\ phase_reg = SineLoop(phase_start, phase_inc, gen_i)
             /\ \E k \in 0 .. gen_i :
                  phase = SineLoop(phase_start, phase_inc, k))
  /\ [](gen_pc = "idle" => phase = phase_reg)
  /\ [](IsFloat(phase) /\ BelowCycle(phase) /\ BelowCycle(phase_reg))

\* a call is under way with frames done and frames to come, and a command
\* has changed the frequency since the call took its increment
C20_Witness ==
  /\ gen_pc = "frames" /\ 1 <= gen_i /\ gen_i < frames
  /\ phase_inc = PhaseInc(FREQ_DEFAULT) /\ freq # FREQ_DEFAULT

====
